---- MODULE Spec2Model ----
(***************************************************************************)
(* BidForge AI: the in-memory job registry (JobQueue) and the conditional  *)
(* multi-agent workflow (BidForgeOrchestrator, SketchAgentNode).           *)
(*                                                                         *)
(* The specifications of this module:                                      *)
(*   Spec      the registry, one call at a time (every mutating method     *)
(*             runs its whole body under self.lock);                       *)
(*   SpecConc  the registry called from several threads: mutating methods  *)
(*             take self.lock and run statement by statement, get_job      *)
(*             takes no lock;                                              *)
(*   SpecWF    one orchestrator driving AgentState values through the      *)
(*             graph declared by _build_workflow;                          *)
(*   SpecDecide  SpecWF with the outcome of the decision logic as an input;*)
(*   SpecPair  the registry with two job ids, one call at a time;          *)
(*   SpecList  list_jobs iterating self.jobs, without the lock, while      *)
(*             other threads create, update and delete jobs;               *)
(*   SpecRef   the registry and a caller that keeps the ProcessingJob      *)
(*             object a call returned and assigns to its attributes.       *)
(***************************************************************************)
EXTENDS Integers, Sequences, FiniteSets, TLC

VARIABLES
    jobs,       \* JobQueue.jobs: dict job_id -> ProcessingJob
    now,        \* the wall clock read by datetime.now()
    outcome,    \* how the latest registry call ended: "returned" or the
                \* name of the exception it raised ("none" before any call)
    lock,       \* JobQueue.lock: the thread holding it, or NoThread
    pc,         \* per thread: "idle", "wait" (blocked on the lock), "body"
    idx,        \* per thread: index into Body of the next statement to run
    call,       \* per thread: the mutating call in progress
    atCall,     \* per thread: the job's status when that call was issued
    pre,        \* per thread: the record found when the body was entered
    torn,       \* per thread: its latest get_job saw a half-updated record
    state,      \* the AgentState of the current workflow run
    node,       \* the graph node about to run ("idle", a node name, END)
    visited,    \* the nodes run so far in the current run, in order
    caller,     \* who started the current run: "process_rfp", "ainvoke"
    response,   \* the dict process_rfp returned, or NoResponse
    entries,    \* SpecList: the entries of self.jobs in insertion order
    it,         \* SpecList: the values() iterator of a running list_jobs
    listed,     \* SpecList: what the latest list_jobs call produced
    ref,        \* SpecRef: the ProcessingJob object the caller holds
    runs,       \* SpecRuns: per process_rfp call in flight, its own state,
                \* position, visited nodes and response
    built       \* what BidForgeOrchestrator() left behind: the nodes it
                \* registered and the exception it raised, if any

regVars  == <<jobs, now, outcome>>
concVars == <<lock, pc, idx, call, atCall, pre, torn>>
wfVars   == <<state, node, visited, caller, response>>
listVars == <<entries, it, listed>>
vars     == <<jobs, now, outcome, lock, pc, idx, call, atCall, pre, torn,
              state, node, visited, caller, response, entries, it, listed,
              ref, runs, built>>

----------------------------------------------------------------------------
(* Bounds *)

MaxTime == 2          \* clock values in Spec
MaxConcTime == 1      \* clock values in SpecConc
MaxPairTime == 2      \* clock values in SpecPair
MaxSketches == 2      \* images / metadata entries per request
MaxEntries == 3       \* entries of self.jobs, deleted ones included

----------------------------------------------------------------------------
(* types.py: JobStatus and ProcessingJob *)

PENDING    == "pending"
PROCESSING == "processing"
COMPLETED  == "completed"
FAILED     == "failed"
CANCELLED  == "cancelled"

JobStatus == {PENDING, PROCESSING, COMPLETED, FAILED, CANCELLED}
Terminal  == {COMPLETED, FAILED, CANCELLED}

None      == "None"     \* Python None for string-valued fields
NoTime    == -1         \* Python None for datetime / duration fields
NoPercent == -1         \* progress_percent argument left at None

JobIds    == {"job-1", "job-2"}
JobTypes  == {"sketch_analysis"}
Results   == {"r1", "r2"}
Errors    == {"provider timeout"}
Percents  == {NoPercent, 0, 120}
Steps     == {None, "s1"}

\* ProcessingJob(job_id=..., status=..., job_type=..., input_data=...,
\* total_steps=...): every other field takes its declared default
ProcessingJob(job_id, status, job_type, input_data, total_steps, t) ==
    [ job_id           |-> job_id,
      status           |-> status,
      created_at       |-> t,
      updated_at       |-> t,
      completed_at     |-> NoTime,
      job_type         |-> job_type,
      input_data       |-> input_data,
      result           |-> None,
      error_message    |-> None,
      progress_percent |-> 0,
      current_step     |-> None,
      total_steps      |-> total_steps,
      processing_time  |-> NoTime,
      cost             |-> None ]

----------------------------------------------------------------------------
(* job_queue.py: the statements of the mutating methods.  A call is the    *)
(* record of a method's arguments; Stmt gives the effect of one source     *)
(* line on the job record, Body the lines of a method in order.            *)

NoCall ==
    [ op |-> "none", job_id |-> None, status |-> None,
      percent |-> NoPercent, step |-> None, result |-> None, error |-> None ]

UpdateCall(id, s, p, c) ==
    [NoCall EXCEPT !.op = "update_job", !.job_id = id, !.status = s,
                   !.percent = p, !.step = c]
CompleteCall(id, r) ==
    [NoCall EXCEPT !.op = "complete_job", !.job_id = id, !.result = r]
FailCall(id, e) ==
    [NoCall EXCEPT !.op = "fail_job", !.job_id = id, !.error = e]
CancelCall(id) ==
    [NoCall EXCEPT !.op = "cancel_job", !.job_id = id]

\* a fail_job that forgets to store the message
Body_FailDropsMessage ==
    [ update_job   |-> <<"L58", "L59", "L62", "L65">>,
      complete_job |-> <<"L72", "L73", "L74", "L75", "L78">>,
      fail_job     |-> <<"L87", "L89">>,
      cancel_job   |-> <<"L96", "L97">> ]

Body ==
    [ update_job   |-> <<"L58", "L59", "L62", "L65">>,
      complete_job |-> <<"L72", "L73", "L74", "L75", "L78">>,
      fail_job     |-> <<"L87", "L88", "L89">>,
      cancel_job   |-> <<"L96", "L97">> ]

Mutators == DOMAIN Body

Stmt(l, j, c, t) ==
    CASE l = "L58" -> [j EXCEPT !.status = c.status]
      [] l = "L59" -> [j EXCEPT !.updated_at = t]
      [] l = "L62" -> IF c.percent # NoPercent
                      THEN [j EXCEPT !.progress_percent = c.percent]
                      ELSE j
      [] l = "L65" -> IF c.step # None
                      THEN [j EXCEPT !.current_step = c.step]
                      ELSE j
      [] l = "L72" -> [j EXCEPT !.status = COMPLETED]
      [] l = "L73" -> [j EXCEPT !.result = c.result]
      [] l = "L74" -> [j EXCEPT !.completed_at = t]
      [] l = "L75" -> [j EXCEPT !.progress_percent = 100]
      [] l = "L78" -> [j EXCEPT !.processing_time =
                                    j.completed_at - j.created_at]
      [] l = "L87" -> [j EXCEPT !.status = FAILED]
      [] l = "L88" -> [j EXCEPT !.error_message = c.error]
      [] l = "L89" -> [j EXCEPT !.updated_at = t]
      [] l = "L96" -> [j EXCEPT !.status = CANCELLED]
      [] l = "L97" -> [j EXCEPT !.updated_at = t]

\* the statements body[k..] applied in order to record j at clock value t
RECURSIVE RunFrom(_, _, _, _, _)
RunFrom(body, k, j, c, t) ==
    IF k > Len(body) THEN j
    ELSE RunFrom(body, k + 1, Stmt(body[k], j, c, t), c, t)

\* mutating methods that create the record when the id is absent
Apply_Upsert(d, c, t) ==
    IF c.job_id \in DOMAIN d
    THEN [d EXCEPT ![c.job_id] = RunFrom(Body[c.op], 1, d[c.job_id], c, t)]
    ELSE [k \in (DOMAIN d) \cup {c.job_id} |->
            IF k = c.job_id
            THEN RunFrom(Body[c.op], 1,
                         ProcessingJob(c.job_id, PENDING, None, None,
                                       NoTime, t), c, t)
            ELSE d[k]]

\* a mutating method run as a whole under the lock: "if job_id in self.jobs"
\* guards the body, an absent id leaves the dict as it is
Apply(d, c, t) ==
    IF c.job_id \in DOMAIN d
    THEN [d EXCEPT ![c.job_id] = RunFrom(Body[c.op], 1, d[c.job_id], c, t)]
    ELSE d

\* an assignment that replaces the whole dict by the one new entry
Store_DropsOthers(d, id, j) ==
    [k \in {id} |-> j]

\* self.jobs[job_id] = job
Store(d, id, j) ==
    [k \in (DOMAIN d) \cup {id} |-> IF k = id THEN j ELSE d[k]]

\* a delete that only marks the record as cancelled
Remove_MarksCancelled(d, id) ==
    [d EXCEPT ![id].status = CANCELLED]

\* del self.jobs[job_id]
Remove(d, id) ==
    [k \in (DOMAIN d) \ {id} |-> d[k]]

----------------------------------------------------------------------------
(* Spec: the registry, one call at a time *)

RegIds == {"job-1"}

MutatingCalls(ids) ==
    {UpdateCall(id, s, p, c) : id \in ids, s \in JobStatus,
                               p \in Percents, c \in Steps}
    \cup {CompleteCall(id, r) : id \in ids, r \in Results}
    \cup {FailCall(id, e) : id \in ids, e \in Errors}
    \cup {CancelCall(id) : id \in ids}

create_job(job_id, job_type, input_data, total_steps) ==
    /\ jobs' = Store(jobs, job_id,
                     ProcessingJob(job_id, PENDING, job_type, input_data,
                                   total_steps, now))
    /\ outcome' = "returned"
    /\ UNCHANGED now

update_job(job_id, status, progress_percent, current_step) ==
    /\ jobs' = Apply(jobs, UpdateCall(job_id, status, progress_percent,
                                      current_step), now)
    /\ outcome' = "returned"
    /\ UNCHANGED now

complete_job(job_id, result) ==
    /\ jobs' = Apply(jobs, CompleteCall(job_id, result), now)
    /\ outcome' = "returned"
    /\ UNCHANGED now

fail_job(job_id, error) ==
    /\ jobs' = Apply(jobs, FailCall(job_id, error), now)
    /\ outcome' = "returned"
    /\ UNCHANGED now

\* a cancel that marks every job on record
cancel_job_CancelsAll(job_id) ==
    /\ jobs' = IF job_id \in DOMAIN jobs
               THEN [k \in DOMAIN jobs |->
                        [jobs[k] EXCEPT !.status = CANCELLED,
                                        !.updated_at = now]]
               ELSE jobs
    /\ outcome' = "returned"
    /\ UNCHANGED now

cancel_job(job_id) ==
    /\ jobs' = Apply(jobs, CancelCall(job_id), now)
    /\ outcome' = "returned"
    /\ UNCHANGED now

delete_job(job_id) ==
    /\ jobs' = IF job_id \in DOMAIN jobs THEN Remove(jobs, job_id) ELSE jobs
    /\ outcome' = "returned"
    /\ UNCHANGED now

\* the None that get_job returns for an unknown id
NoJob == ProcessingJob(None, None, None, None, NoTime, NoTime)

\* JobQueue.get_job: self.jobs.get(job_id)
get_job(d, job_id) ==
    IF job_id \in DOMAIN d THEN d[job_id] ELSE NoJob

\* JobQueue.list_jobs run without interference: the records whose status
\* equals the filter, all records when status is None (the list is given
\* as the set of its elements)
list_jobs(d, status) ==
    IF status # None
    THEN {d[k] : k \in {i \in DOMAIN d : d[i].status = status}}
    ELSE {d[k] : k \in DOMAIN d}

\* time passes between calls
Tick ==
    /\ now < MaxTime
    /\ now' = now + 1
    /\ UNCHANGED <<jobs, outcome>>

EmptyDict == [k \in {} |-> NoCall]

\* time passes between calls (SpecPair)
PairTick ==
    /\ now < MaxPairTime
    /\ now' = now + 1
    /\ UNCHANGED <<jobs, outcome>>

RegInit ==
    /\ jobs = EmptyDict
    /\ now = 0
    /\ outcome = "none"

----------------------------------------------------------------------------
(* SpecConc: the registry called from several threads.  "with self.lock"   *)
(* blocks the caller until the lock is free; the statements of a body then *)
(* run one at a time, and other threads may run in between.  get_job and   *)
(* the clock take no lock.                                                 *)

Threads  == {"t1", "t2"}
NoThread == "none"

\* the calls the threads choose from
ConcCalls ==
    {UpdateCall(id, PROCESSING, NoPercent, "s1") : id \in RegIds}
    \cup {CompleteCall(id, "r1") : id \in RegIds}
    \cup {FailCall(id, e) : id \in RegIds, e \in Errors}
    \cup {CancelCall(id) : id \in RegIds}
    \cup {[NoCall EXCEPT !.op = "create_job", !.job_id = id] : id \in RegIds}
    \cup {[NoCall EXCEPT !.op = "delete_job", !.job_id = id] : id \in RegIds}

StatusOf(d, id) == IF id \in DOMAIN d THEN d[id].status ELSE None

\* what a reader can tell apart in a record without comparing clock values
Digest(j) ==
    [ status |-> j.status, result |-> j.result,
      error_message |-> j.error_message,
      progress_percent |-> j.progress_percent,
      current_step |-> j.current_step,
      completed |-> (j.completed_at # NoTime),
      timed |-> (j.processing_time # NoTime) ]

\* the record of job id is in the middle of thread u's body: it is neither
\* the record u found nor the record u's call leaves behind
MidUpdate(u, id) ==
    /\ pc[u] = "body"
    /\ call[u].job_id = id
    /\ Digest(jobs[id]) # Digest(pre[u])
    /\ Digest(jobs[id]) #
           Digest(RunFrom(Body[call[u].op], 1, pre[u], call[u], now))

\* thread t's call returns to its caller
Returned(t) ==
    /\ pc' = [pc EXCEPT ![t] = "idle"]
    /\ call' = [call EXCEPT ![t] = NoCall]
    /\ atCall' = [atCall EXCEPT ![t] = None]
    /\ outcome' = "returned"

\* a thread issues a mutating call and blocks on "with self.lock"
ThCall(t, c) ==
    /\ pc[t] = "idle"
    /\ pc' = [pc EXCEPT ![t] = "wait"]
    /\ call' = [call EXCEPT ![t] = c]
    /\ atCall' = [atCall EXCEPT ![t] = StatusOf(jobs, c.job_id)]
    /\ UNCHANGED <<jobs, now, outcome, lock, idx, pre, torn>>

\* a registry whose methods do not wait for the lock to be free
ThEnter_NoLock(t) ==
    /\ pc[t] = "wait"
    /\ LET c == call[t] IN
       IF c.op \in Mutators /\ c.job_id \in DOMAIN jobs
       THEN /\ lock' = t
            /\ pc' = [pc EXCEPT ![t] = "body"]
            /\ idx' = [idx EXCEPT ![t] = 1]
            /\ pre' = [pre EXCEPT ![t] = jobs[c.job_id]]
            /\ UNCHANGED <<jobs, outcome, call, atCall>>
       ELSE /\ jobs' = CASE c.op = "create_job" ->
                              Store(jobs, c.job_id,
                                    ProcessingJob(c.job_id, PENDING,
                                                  "sketch_analysis", "input",
                                                  NoTime, now))
                         [] c.op = "delete_job" ->
                              IF c.job_id \in DOMAIN jobs
                              THEN Remove(jobs, c.job_id) ELSE jobs
                         [] OTHER -> jobs
            /\ Returned(t)
            /\ UNCHANGED <<lock, idx, pre>>
    /\ UNCHANGED <<now, torn>>

\* the lock is granted.  create_job and delete_job change the dict in one
\* statement; the other methods test "job_id in self.jobs" and either enter
\* their body or fall through and release the lock
ThEnter(t) ==
    /\ pc[t] = "wait"
    /\ lock = NoThread
    /\ LET c == call[t] IN
       IF c.op \in Mutators /\ c.job_id \in DOMAIN jobs
       THEN /\ lock' = t
            /\ pc' = [pc EXCEPT ![t] = "body"]
            /\ idx' = [idx EXCEPT ![t] = 1]
            /\ pre' = [pre EXCEPT ![t] = jobs[c.job_id]]
            /\ UNCHANGED <<jobs, outcome, call, atCall>>
       ELSE /\ jobs' = CASE c.op = "create_job" ->
                              Store(jobs, c.job_id,
                                    ProcessingJob(c.job_id, PENDING,
                                                  "sketch_analysis", "input",
                                                  NoTime, now))
                         [] c.op = "delete_job" ->
                              IF c.job_id \in DOMAIN jobs
                              THEN Remove(jobs, c.job_id) ELSE jobs
                         [] OTHER -> jobs
            /\ Returned(t)
            /\ UNCHANGED <<lock, idx, pre>>
    /\ UNCHANGED <<now, torn>>

\* the lock holder runs the next statement of its body; after the last one
\* it leaves the "with" block
ThStmt(t) ==
    /\ pc[t] = "body"
    /\ lock = t
    /\ LET c    == call[t]
           body == Body[c.op]
       IN /\ jobs' = [jobs EXCEPT ![c.job_id] =
                                    Stmt(body[idx[t]], @, c, now)]
          /\ IF idx[t] = Len(body)
             THEN /\ lock' = NoThread
                  /\ idx' = [idx EXCEPT ![t] = 0]
                  /\ pre' = [pre EXCEPT ![t] = NoJob]
                  /\ Returned(t)
             ELSE /\ idx' = [idx EXCEPT ![t] = idx[t] + 1]
                  /\ UNCHANGED <<lock, pc, outcome, call, atCall, pre>>
    /\ UNCHANGED <<now, torn>>

\* get_job: self.jobs.get(job_id), without the lock
ThGet(t, job_id) ==
    /\ pc[t] = "idle"
    /\ torn' = [torn EXCEPT ![t] =
                   /\ job_id \in DOMAIN jobs
                   /\ \E u \in Threads : MidUpdate(u, job_id)]
    /\ outcome' = "returned"
    /\ UNCHANGED <<jobs, now, lock, pc, idx, call, atCall, pre>>

ConcTick ==
    /\ now < MaxConcTime
    /\ now' = now + 1
    /\ UNCHANGED <<jobs, outcome>>
    /\ UNCHANGED concVars

ConcInit ==
    /\ lock = NoThread
    /\ pc = [t \in Threads |-> "idle"]
    /\ idx = [t \in Threads |-> 0]
    /\ call = [t \in Threads |-> NoCall]
    /\ atCall = [t \in Threads |-> None]
    /\ pre = [t \in Threads |-> NoJob]
    /\ torn = [t \in Threads |-> FALSE]

----------------------------------------------------------------------------
(* SpecWF: the workflow.  An AgentState is a Python dict: a function from  *)
(* the keys present to their values.                                       *)

Get(d, k, default) == IF k \in DOMAIN d THEN d[k] ELSE default

Put(d, k, v) == [x \in (DOMAIN d) \cup {k} |-> IF x = k THEN v ELSE d[x]]

EmptyState == [k \in {} |-> None]

END == "__end__"

Nodes ==
    { "input_classifier", "sketch_analysis", "vector_store_agent",
      "analysis_agent", "decision_agent", "generation_agent",
      "review_agent" }

EntryPoint == "input_classifier"

\* a graph whose sketch path skips the vector store
Edges_SkipVectorStore ==
    [ sketch_analysis    |-> "analysis_agent",
      vector_store_agent |-> "analysis_agent",
      analysis_agent     |-> "decision_agent",
      generation_agent   |-> "review_agent",
      review_agent       |-> END ]

\* workflow.add_edge(a, b)
Edges ==
    [ sketch_analysis    |-> "vector_store_agent",
      vector_store_agent |-> "analysis_agent",
      analysis_agent     |-> "decision_agent",
      generation_agent   |-> "review_agent",
      review_agent       |-> END ]

\* path maps that send a rejected bid on to generation
PathMap_RejectGenerates ==
    [ input_classifier |-> [ sketch_analysis |-> "sketch_analysis",
                             analysis_agent  |-> "analysis_agent" ],
      decision_agent   |-> [ generate |-> "generation_agent",
                             reject   |-> "generation_agent" ] ]

\* workflow.add_conditional_edges(a, route, path_map): the path maps
PathMap ==
    [ input_classifier |-> [ sketch_analysis |-> "sketch_analysis",
                             analysis_agent  |-> "analysis_agent" ],
      decision_agent   |-> [ generate |-> "generation_agent",
                             reject   |-> END ] ]

\* a handler that puts its message at the head of the log
AppendMessage_Prepend(st, m) == Put(st, "messages", <<m>> \o st["messages"])

\* state["messages"].append(m)
AppendMessage(st, m) == Put(st, "messages", Append(st["messages"], m))

\* a classifier that forgets the explicit requires_sketch_analysis flag
_input_classifier_node_NoFlag(st) ==
    LET images   == Get(st, "images", <<>>)
        has1     == Len(images) > 0
        count1   == IF has1 THEN Len(images) ELSE 0
        metadata == Get(st, "sketch_metadata", <<>>)
        has2     == has1 \/ Len(metadata) > 0
        count2   == IF Len(metadata) > 0 /\ Len(metadata) > count1
                    THEN Len(metadata) ELSE count1
        st1      == Put(Put(st, "has_sketches", has2), "sketch_count", count2)
    IN IF has2
       THEN Put(AppendMessage(st1, "Detected sketch(es)"),
                "next_agent", "sketch_analysis")
       ELSE Put(AppendMessage(st1, "Text-only RFP detected"),
                "next_agent", "analysis_agent")

_input_classifier_node(st) ==
    LET images   == Get(st, "images", <<>>)
        has1     == Len(images) > 0
        count1   == IF has1 THEN Len(images) ELSE 0
        metadata == Get(st, "sketch_metadata", <<>>)
        has2     == has1 \/ Len(metadata) > 0
        count2   == IF Len(metadata) > 0 /\ Len(metadata) > count1
                    THEN Len(metadata) ELSE count1
        has3     == has2 \/ Get(st, "requires_sketch_analysis", FALSE)
        st1      == Put(Put(st, "has_sketches", has3), "sketch_count", count2)
    IN IF has3
       THEN Put(AppendMessage(st1, "Detected sketch(es)"),
                "next_agent", "sketch_analysis")
       ELSE Put(AppendMessage(st1, "Text-only RFP detected"),
                "next_agent", "analysis_agent")

\* a route function that tests the presence of the key, not its value
_route_from_classifier_KeyPresent(st) ==
    IF "has_sketches" \in DOMAIN st THEN "sketch_analysis"
    ELSE "analysis_agent"

_route_from_classifier(st) ==
    IF Get(st, "has_sketches", FALSE) THEN "sketch_analysis"
    ELSE "analysis_agent"

\* SketchAgent.analyze_sketch: the vision call succeeds (the parsed output,
\* default confidence 80) or fails (_build_error_output: confidence 0 and a
\* warning); either way a SketchAnalysisOutput is returned
analyze_sketch(image, metadata, outcome_) ==
    IF outcome_ = "ok"
    THEN [ sketch_id |-> metadata, confidence_score |-> 80,
           notes |-> "", warnings |-> <<>> ]
    ELSE [ sketch_id |-> metadata, confidence_score |-> 0,
           notes |-> "Analysis failed", warnings |-> <<"Error">> ]

\* SketchAgent.process_multiple_sketches: zip(images, metadata_list)
process_multiple_sketches(images, metadata_list, outs) ==
    LET n == IF Len(images) < Len(metadata_list)
             THEN Len(images) ELSE Len(metadata_list)
    IN [i \in 1..n |-> analyze_sketch(images[i], metadata_list[i], outs[i])]

RECURSIVE SumConfidence(_, _)
SumConfidence(results, k) ==
    IF k = 0 THEN 0
    ELSE results[k].confidence_score + SumConfidence(results, k - 1)

\* SketchAgentNode._aggregate_analysis
_aggregate_analysis(results) ==
    IF Len(results) = 0 THEN EmptyState
    ELSE [ total_sketches |-> Len(results),
           confidence_avg |->
               SumConfidence(results, Len(results)) \div Len(results) ]

\* a handler whose error paths set the error field only
SketchAgentNode_ErrorKeepsNext(st, outs) ==
    LET metadata_list == Get(st, "sketch_metadata", <<>>)
        images        == Get(st, "images", <<>>)
    IN IF Len(images) = 0
       THEN Put(st, "error", "No images found")
       ELSE
         LET analysis_results ==
                 process_multiple_sketches(images, metadata_list, outs)
             st1 == Put(st, "analysis_results", analysis_results)
             st2 == Put(st1, "extracted_data",
                        _aggregate_analysis(analysis_results))
             st3 == Put(st2, "embeddings",
                        [i \in 1..Len(analysis_results) |->
                            analysis_results[i].sketch_id])
         IN IF Len(analysis_results) = 0
            THEN Put(st3, "error", "Sketch Agent Error: division by zero")
            ELSE Put(AppendMessage(st3, "Analyzed sketch(es)"),
                     "next_agent", "vector_store_agent")

\* SketchAgentNode.__call__; outs[i] is the outcome of the vision call for
\* the i-th image
SketchAgentNode(st, outs) ==
    LET metadata_list == Get(st, "sketch_metadata", <<>>)
        images        == Get(st, "images", <<>>)
    IN IF Len(images) = 0
       THEN Put(Put(st, "error", "No images found"), "next_agent", END)
       ELSE
         LET analysis_results ==
                 process_multiple_sketches(images, metadata_list, outs)
             st1 == Put(st, "analysis_results", analysis_results)
             st2 == Put(st1, "extracted_data",
                        _aggregate_analysis(analysis_results))
             st3 == Put(st2, "embeddings",
                        [i \in 1..Len(analysis_results) |->
                            analysis_results[i].sketch_id])
         IN IF Len(analysis_results) = 0
            THEN \* avg_conf divides by len(analysis_results):
                 \* ZeroDivisionError, caught by "except Exception"
                 Put(Put(st3, "error", "Sketch Agent Error: division by zero"),
                     "next_agent", END)
            ELSE Put(AppendMessage(st3, "Analyzed sketch(es)"),
                     "next_agent", "vector_store_agent")

\* a vector-store handler that names its successor in the state
_vector_store_node_SetsNext(st) ==
    Put(AppendMessage(st, "Sketch data stored in vector database"),
        "next_agent", "analysis_agent")

_vector_store_node(st) ==
    AppendMessage(st, "Sketch data stored in vector database")

_analysis_node(st) ==
    Put(IF Get(st, "has_sketches", FALSE)
        THEN AppendMessage(st, "Analyzing RFP with sketch data integrated")
        ELSE AppendMessage(st, "Analyzing text-only RFP"),
        "analysis_complete", TRUE)

_decision_node(st) ==
    AppendMessage(Put(st, "decision", "generate"),
                  "Decision: Proceed with bid")

\* a decision logic with a third outcome that no edge is declared for
Decisions_WithDefer == {"generate", "reject", "defer"}

\* the two values the decision field takes: line 157 writes "generate" and
\* names "reject" as the other outcome of the decision logic
Decisions == {"generate", "reject"}

\* the decision handler with the outcome d of its decision logic as an
\* input; _decision_node is DecisionStage with d = "generate"
DecisionStage(st, d) ==
    AppendMessage(Put(st, "decision", d), "Decision: Proceed with bid")

\* the generation and review handlers the class defines; _build_workflow
\* registers the two nodes under the names _generation_node / _review_node
_generation_agent(st) ==
    IF Get(st, "has_sketches", FALSE)
    THEN AppendMessage(st, "Generating bid response using sketch analysis")
    ELSE AppendMessage(st, "Generating bid response from RFP text")

_review_agent(st) == AppendMessage(st, "Quality review complete")

\* a branch function that ignores the decision
_route_decision_AlwaysReject(st) == "reject"

_route_decision(st) == Get(st, "decision", "reject")

----------------------------------------------------------------------------
(* process_rfp and the run of the compiled graph *)

\* an Optional argument: not given (None), or given with a value
NotGiven   == [given |-> FALSE]
Given(v)   == [given |-> TRUE, value |-> v]

Images(n)    == [i \in 1..n |-> i]
Metadatas(m) == [i \in 1..m |-> i]

SketchArgs ==
    {NotGiven} \cup {Given(Images(n)) : n \in 0..MaxSketches}

MetadataArgs ==
    {NotGiven, Given(EmptyState)}
    \cup {Given([sketches |-> Metadatas(m)]) : m \in 0..MaxSketches}

\* an initial state whose flag also counts the sketch metadata
initial_state_FlagFromMetadata(rfp_text, sketches, metadata) ==
    [ messages         |-> <<"Process RFP">>,
      rfp_text         |-> rfp_text,
      images           |-> IF sketches.given THEN sketches.value ELSE <<>>,
      sketch_metadata  |-> IF metadata.given
                           THEN Get(metadata.value, "sketches", <<>>)
                           ELSE <<>>,
      project_context  |-> None,
      analysis_results |-> <<>>,
      extracted_data   |-> EmptyState,
      embeddings       |-> <<>>,
      next_agent       |-> "input_classifier",
      error            |-> None,
      requires_sketch_analysis |->
          \/ (sketches.given /\ Len(sketches.value) > 0)
          \/ (metadata.given
              /\ Len(Get(metadata.value, "sketches", <<>>)) > 0),
      retry_count      |-> 0 ]

\* the dict process_rfp builds before it runs the workflow
initial_state(rfp_text, sketches, metadata) ==
    [ messages         |-> <<"Process RFP">>,
      rfp_text         |-> rfp_text,
      images           |-> IF sketches.given THEN sketches.value ELSE <<>>,
      sketch_metadata  |-> IF metadata.given
                           THEN Get(metadata.value, "sketches", <<>>)
                           ELSE <<>>,
      project_context  |-> None,
      analysis_results |-> <<>>,
      extracted_data   |-> EmptyState,
      embeddings       |-> <<>>,
      next_agent       |-> "input_classifier",
      error            |-> None,
      requires_sketch_analysis |->
          (sketches.given /\ Len(sketches.value) > 0),
      retry_count      |-> 0 ]

\* the AgentState values a caller can hand to workflow.ainvoke directly
AgentStates ==
    { [initial_state("text", Given(Images(n)),
                     Given([sketches |-> Metadatas(m)]))
          EXCEPT !.requires_sketch_analysis = f] :
      n \in 0..MaxSketches, m \in 0..MaxSketches, f \in BOOLEAN }

\* a response that reports success whatever the final state says
Project_AlwaysSuccess(final_state) ==
    [ success          |-> TRUE,
      has_sketches     |-> Get(final_state, "has_sketches", FALSE),
      sketch_count     |-> Get(final_state, "sketch_count", 0),
      analysis_results |-> Get(final_state, "analysis_results", <<>>),
      extracted_data   |-> Get(final_state, "extracted_data", EmptyState),
      decision         |-> Get(final_state, "decision", "unknown"),
      final_response   |-> Get(final_state, "final_response", None),
      messages         |-> Get(final_state, "messages", <<>>),
      error            |-> Get(final_state, "error", None) ]

\* the dict process_rfp returns
Project(final_state) ==
    [ success          |-> (Get(final_state, "error", None) = None),
      has_sketches     |-> Get(final_state, "has_sketches", FALSE),
      sketch_count     |-> Get(final_state, "sketch_count", 0),
      analysis_results |-> Get(final_state, "analysis_results", <<>>),
      extracted_data   |-> Get(final_state, "extracted_data", EmptyState),
      decision         |-> Get(final_state, "decision", "unknown"),
      final_response   |-> Get(final_state, "final_response", None),
      messages         |-> Get(final_state, "messages", <<>>),
      error            |-> Get(final_state, "error", None) ]

NoResponse == EmptyState

\* process_rfp up to the call of the workflow: the first message reads
\* metadata.get('rfp_id', ...), which raises when metadata is None
process_rfp(rfp_text, sketches, metadata) ==
    /\ node = "idle"
    /\ caller' = "process_rfp"
    /\ visited' = <<>>
    /\ IF metadata.given
       THEN /\ state' = initial_state(rfp_text, sketches, metadata)
            /\ node' = EntryPoint
            /\ response' = NoResponse
       ELSE /\ state' = EmptyState
            /\ node' = "idle"
            /\ response' = [raised |-> "AttributeError"]

\* workflow.ainvoke(st) called with a state built by the caller
ainvoke(st) ==
    /\ node = "idle"
    /\ caller' = "ainvoke"
    /\ visited' = <<>>
    /\ state' = st
    /\ node' = EntryPoint
    /\ response' = NoResponse

\* an engine whose choice of successor depends on how many nodes have run
Ran_RoutesOnHistory(n, st1, next) ==
    /\ state' = st1
    /\ node' = IF next = "generation_agent" /\ Len(visited) > 3
               THEN END ELSE next
    /\ visited' = Append(visited, n)
    /\ UNCHANGED <<caller, response>>

\* one node of the graph runs: its handler returns the new state, then the
\* edge registered for the node names the next node
Ran(n, st1, next) ==
    /\ state' = st1
    /\ node' = next
    /\ visited' = Append(visited, n)
    /\ UNCHANGED <<caller, response>>

\* a graph whose decision branch sends the run back to the analysis node
RanBranch_Loops(n, st1, v) ==
    IF n = "decision_agent" /\ Len(visited) < 8
    THEN Ran(n, st1, "analysis_agent")
    ELSE Ran(n, st1, PathMap[n][v])

\* a node with a conditional edge runs: the branch function's value v is
\* looked up in the path map declared for the node; a value that is not a
\* key of that dict raises KeyError out of the run
RanBranch(n, st1, v) ==
    IF v \in DOMAIN PathMap[n]
    THEN Ran(n, st1, PathMap[n][v])
    ELSE /\ state' = st1
         /\ node' = "idle"
         /\ visited' = Append(visited, n)
         /\ response' = [raised |-> "KeyError"]
         /\ UNCHANGED caller

\* a classifier branch that looks at the image list only
RunClassifier_RoutesOnImages ==
    /\ node = "input_classifier"
    /\ LET st1 == _input_classifier_node(state)
       IN RanBranch("input_classifier", st1,
                    IF Len(Get(st1, "images", <<>>)) > 0
                    THEN "sketch_analysis" ELSE "analysis_agent")

RunClassifier ==
    /\ node = "input_classifier"
    /\ LET st1 == _input_classifier_node(state)
       IN RanBranch("input_classifier", st1, _route_from_classifier(st1))

\* an engine that does not invoke the sketch handler when the state has
\* no images
RunSketchAnalysis_SkipsEmpty ==
    /\ node = "sketch_analysis"
    /\ \E outs \in [1..Len(Get(state, "images", <<>>)) -> {"ok", "fail"}] :
          Ran("sketch_analysis",
              IF Len(Get(state, "images", <<>>)) = 0 THEN state
              ELSE SketchAgentNode(state, outs),
              Edges["sketch_analysis"])

RunSketchAnalysis ==
    /\ node = "sketch_analysis"
    /\ \E outs \in [1..Len(Get(state, "images", <<>>)) -> {"ok", "fail"}] :
          Ran("sketch_analysis", SketchAgentNode(state, outs),
              Edges["sketch_analysis"])

RunVectorStore ==
    /\ node = "vector_store_agent"
    /\ Ran("vector_store_agent", _vector_store_node(state),
           Edges["vector_store_agent"])

RunAnalysis ==
    /\ node = "analysis_agent"
    /\ Ran("analysis_agent", _analysis_node(state), Edges["analysis_agent"])

RunDecision ==
    /\ node = "decision_agent"
    /\ LET st1 == _decision_node(state)
       IN RanBranch("decision_agent", st1, _route_decision(st1))

\* the decision node runs and its decision logic yields d
RunDecisionWith(d) ==
    /\ node = "decision_agent"
    /\ LET st1 == DecisionStage(state, d)
       IN RanBranch("decision_agent", st1, _route_decision(st1))

RunGeneration ==
    /\ node = "generation_agent"
    /\ Ran("generation_agent", _generation_agent(state),
           Edges["generation_agent"])

RunReview ==
    /\ node = "review_agent"
    /\ Ran("review_agent", _review_agent(state), Edges["review_agent"])

\* the graph reached END: ainvoke returns the final state, and process_rfp
\* builds its result from it
Return ==
    /\ node = END
    /\ node' = "idle"
    /\ response' = IF caller = "process_rfp" THEN Project(state)
                   ELSE [final_state |-> state]
    /\ UNCHANGED <<state, visited, caller>>

WFInit ==
    /\ state = EmptyState
    /\ node = "idle"
    /\ visited = <<>>
    /\ caller = "none"
    /\ response = NoResponse

----------------------------------------------------------------------------
(* SpecList: list_jobs (job_queue.py:105-109) takes no lock.  With a       *)
(* status filter it runs the comprehension                                 *)
(*     [j for j in self.jobs.values() if j.status == status]               *)
(* one element at a time, and other threads run between two elements;      *)
(* without a filter list(self.jobs.values()) is one step.  The mutating    *)
(* methods are taken as one step each: the iterator reads the dict's       *)
(* entries and each job's status, and each of these is written by a single *)
(* statement of a method.                                                  *)

Hole == "hole"        \* an entry whose key was deleted

RECURSIVE Compact(_)
Compact(e) ==
    IF e = <<>> THEN <<>>
    ELSE IF e[1] = Hole THEN Compact(Tail(e))
         ELSE <<e[1]>> \o Compact(Tail(e))

\* len(self.jobs)
Used(e) == Len(Compact(e))

\* self.jobs[id] = job: a new key takes the next free entry
Inserted(e, id) ==
    IF \E i \in 1..Len(e) : e[i] = id THEN e ELSE Append(e, id)

\* del self.jobs[id]: the entry stays, emptied
Deleted(e, id) ==
    [i \in 1..Len(e) |-> IF e[i] = id THEN Hole ELSE e[i]]

\* the first live entry at or after position p, 0 when there is none
FirstFrom(e, p) ==
    LET S == {i \in p..Len(e) : e[i] # Hole}
    IN IF S = {} THEN 0 ELSE CHOOSE i \in S : \A k \in S : i <= k

\* the ids whose record passes "if j.status == status"
Matching(d, status) ==
    {k \in DOMAIN d : status = None \/ d[k].status = status}

ListStatuses == {PROCESSING, COMPLETED}
ListFilters  == {None, PENDING, PROCESSING}

NoIter ==
    [ active |-> FALSE, filter |-> None, di_used |-> 0, di_pos |-> 1,
      len |-> 0, acc |-> <<>>, snaps |-> {} ]

NoListing ==
    [ done |-> FALSE, raised |-> None, items |-> <<>>, snaps |-> {} ]

\* a mutating method runs; while list_jobs is iterating, emptied entries
\* stay in place and the ids that match the filter now are noted
Mutate(A, e1) ==
    /\ A
    /\ entries' = IF it.active THEN e1 ELSE Compact(e1)
    /\ it' = IF it.active
             THEN [it EXCEPT !.snaps = @ \cup {Matching(jobs', it.filter)}]
             ELSE it
    /\ UNCHANGED listed

ListCreate(id, ty) ==
    /\ id \in DOMAIN jobs \/ Len(entries) < MaxEntries
    /\ Mutate(create_job(id, ty, "input", NoTime), Inserted(entries, id))

ListUpdate(id, s) ==
    Mutate(update_job(id, s, NoPercent, None), entries)

ListDelete(id) ==
    Mutate(delete_job(id), Deleted(entries, id))

\* list_jobs(status) is called: without a filter it returns at once, with
\* a filter it creates the values() iterator
ListCall(status) ==
    /\ ~it.active
    /\ UNCHANGED <<regVars, entries>>
    /\ IF status = None
       THEN /\ listed' = [ done |-> TRUE, raised |-> None,
                           items |-> entries, snaps |-> {DOMAIN jobs} ]
            /\ it' = it
       ELSE /\ listed' = NoListing
            /\ it' = [ active |-> TRUE, filter |-> status,
                       di_used |-> Used(entries), di_pos |-> 1,
                       len |-> Used(entries), acc |-> <<>>,
                       snaps |-> {Matching(jobs, status)} ]

\* list_jobs ends: by returning its list or by raising
Finish(raised, items) ==
    /\ listed' = [ done |-> TRUE, raised |-> raised, items |-> items,
                   snaps |-> it.snaps ]
    /\ it' = NoIter
    /\ entries' = Compact(entries)

\* the iterator yields the job at entry i and the comprehension tests it
Yield(i) ==
    /\ it' = [it EXCEPT
                !.di_pos = i + 1,
                !.len = IF @ > 0 THEN @ - 1 ELSE 0,
                !.acc = IF jobs[entries[i]].status = it.filter
                        THEN Append(@, entries[i]) ELSE @]
    /\ UNCHANGED <<entries, listed>>

\* one round of the comprehension: next() on the values() iterator.  The
\* iterator raises RuntimeError when len(self.jobs) differs from the length
\* it saw at creation; an entry found after the expected number of values
\* was handed out raises as well or is yielded, depending on the
\* interpreter version.
ListNext ==
    /\ it.active
    /\ UNCHANGED regVars
    /\ LET i == FirstFrom(entries, it.di_pos)
       IN \/ /\ Used(entries) # it.di_used
             /\ Finish("RuntimeError", <<>>)
          \/ /\ Used(entries) = it.di_used
             /\ i = 0
             /\ Finish(None, it.acc)
          \/ /\ Used(entries) = it.di_used
             /\ i # 0
             /\ it.len = 0
             /\ Finish("RuntimeError", <<>>)
          \/ /\ Used(entries) = it.di_used
             /\ i # 0
             /\ Yield(i)

ListInit ==
    /\ entries = <<>>
    /\ it = NoIter
    /\ listed = NoListing

----------------------------------------------------------------------------
(* SpecRef: create_job returns the ProcessingJob it stored (job_queue.py   *)
(* line 41), get_job returns self.jobs.get(job_id) (line 45) and list_jobs *)
(* returns a list of self.jobs.values() (lines 108-109): in each case the  *)
(* caller receives the very object the dict holds, not a copy.  ref names  *)
(* the object the caller kept from its latest such call: the id under      *)
(* which it was stored, and whether the dict still holds that object       *)
(* (create_job under the same id and delete_job replace or drop it).       *)

NoRef == [id |-> None, stored |-> FALSE]

RefCalls ==
    {UpdateCall(id, PROCESSING, NoPercent, None) : id \in JobIds}
    \cup {CompleteCall(id, "r1") : id \in JobIds}
    \cup {FailCall(id, e) : id \in JobIds, e \in Errors}
    \cup {CancelCall(id) : id \in JobIds}

\* job = queue.create_job(...)
RefCreate(id, ty) ==
    /\ create_job(id, ty, "input", NoTime)
    /\ ref' = [id |-> id, stored |-> TRUE]

\* job = queue.get_job(id)
RefGet(id) ==
    /\ ref' = IF get_job(jobs, id) = NoJob THEN NoRef
              ELSE [id |-> id, stored |-> TRUE]
    /\ outcome' = "returned"
    /\ UNCHANGED <<jobs, now>>

\* job = one element of queue.list_jobs(status)
RefList(status, id) ==
    /\ get_job(jobs, id) \in list_jobs(jobs, status)
    /\ ref' = [id |-> id, stored |-> TRUE]
    /\ outcome' = "returned"
    /\ UNCHANGED <<jobs, now>>

\* update_job / complete_job / fail_job / cancel_job change the stored
\* object in place
RefMutator(c) ==
    /\ jobs' = Apply(jobs, c, now)
    /\ outcome' = "returned"
    /\ UNCHANGED <<now, ref>>

\* delete_job drops the dict's reference; the caller's object lives on
RefDelete(id) ==
    /\ delete_job(id)
    /\ ref' = IF ref.id = id THEN [ref EXCEPT !.stored = FALSE] ELSE ref

\* the caller assigns job.status = s on the object it holds
CallerSetsStatus(s) ==
    /\ ref # NoRef
    /\ jobs' = IF ref.stored
               THEN [jobs EXCEPT ![ref.id].status = s]
               ELSE jobs
    /\ UNCHANGED <<now, outcome, ref>>

RefTick ==
    /\ now < MaxPairTime
    /\ now' = now + 1
    /\ UNCHANGED <<jobs, outcome, ref>>

RefInit == ref = NoRef

----------------------------------------------------------------------------
(* Construction of the orchestrator *)

\* the methods class BidForgeOrchestrator defines
Methods ==
    { "__init__", "_build_workflow", "_input_classifier_node",
      "_route_from_classifier", "_vector_store_node", "_analysis_node",
      "_decision_node", "_generation_agent", "_review_agent",
      "_route_decision", "process_rfp" }

\* the add_node calls of _build_workflow, in order: the node name and the
\* attribute of self (or the callable object) handed over as its handler
Registrations ==
    << [name |-> "input_classifier",   handler |-> "_input_classifier_node"],
       [name |-> "sketch_analysis",    handler |-> "SketchAgentNode"],
       [name |-> "vector_store_agent", handler |-> "_vector_store_node"],
       [name |-> "analysis_agent",     handler |-> "_analysis_node"],
       [name |-> "decision_agent",     handler |-> "_decision_node"],
       [name |-> "generation_agent",   handler |-> "_generation_node"],
       [name |-> "review_agent",       handler |-> "_review_node"] >>

\* evaluating the handler argument of an add_node call: self.<attribute>
\* raises AttributeError when the class has no such attribute
Resolves(handler) == handler = "SketchAgentNode" \/ handler \in Methods

\* the registrations made before the first one that raises
RECURSIVE add_nodes(_, _)
add_nodes(regs, done) ==
    IF regs = <<>> THEN [registered |-> done, raised |-> None]
    ELSE IF ~Resolves(Head(regs).handler)
         THEN [registered |-> done, raised |-> "AttributeError"]
         ELSE add_nodes(Tail(regs), Append(done, Head(regs)))

\* BidForgeOrchestrator.__init__: self.workflow = self._build_workflow()
_build_workflow == add_nodes(Registrations, <<>>)

BuildInit == built = _build_workflow

----------------------------------------------------------------------------
(* Two process_rfp calls in flight on one orchestrator *)

RunIds == {"run-a", "run-b"}

NoRun ==
    [ state |-> EmptyState, node |-> "idle", visited |-> <<>>,
      init |-> EmptyState, outs |-> <<>>, response |-> NoResponse ]

\* the handler registered for node n, applied to the state of a run
Handler(n, st, outs) ==
    CASE n = "input_classifier"   -> _input_classifier_node(st)
      [] n = "sketch_analysis"    -> SketchAgentNode(st, outs)
      [] n = "vector_store_agent" -> _vector_store_node(st)
      [] n = "analysis_agent"     -> _analysis_node(st)
      [] n = "decision_agent"     -> _decision_node(st)
      [] n = "generation_agent"   -> _generation_agent(st)
      [] n = "review_agent"       -> _review_agent(st)

\* the value of the branch function registered for node n
Branch(n, st1) ==
    IF n = "input_classifier" THEN _route_from_classifier(st1)
    ELSE _route_decision(st1)

\* the node that runs after n returned st1 ("raised": the path map has no
\* entry for the branch value)
Successor(n, st1) ==
    IF n \in DOMAIN PathMap
    THEN IF Branch(n, st1) \in DOMAIN PathMap[n]
         THEN PathMap[n][Branch(n, st1)] ELSE "raised"
    ELSE Edges[n]

\* the messages list a handler of run r appends to is the one in the dict
\* process_rfp built for that call; here every call shares the first one's
Messages_Shared(rs, r) ==
    IF rs["run-a"].node = "idle" THEN rs[r].state["messages"]
    ELSE Get(rs["run-a"].state, "messages", rs[r].state["messages"])

\* the messages list a handler of run r appends to: the list literal in
\* the initial_state dict of that call
Messages(rs, r) == rs[r].state["messages"]

\* the state dict handed to a handler of run r
StateOf(rs, r) == Put(rs[r].state, "messages", Messages(rs, r))

\* process_rfp is called: it builds initial_state and enters the graph
RunStart(r, sketches, metadata) ==
    /\ runs[r].node = "idle"
    /\ IF metadata.given
       THEN LET st == initial_state("text", sketches, metadata)
            IN runs' = [runs EXCEPT ![r] =
                   [NoRun EXCEPT !.state = st, !.init = st,
                                 !.node = EntryPoint]]
       ELSE runs' = [runs EXCEPT ![r] =
                   [NoRun EXCEPT !.node = "done",
                                 !.response = [raised |-> "AttributeError"]]]

\* the node run r stands at runs; the other call is suspended at an await
RunStep(r) ==
    /\ runs[r].node \in Nodes
    /\ LET n == runs[r].node
       IN \E outs \in [1..Len(Get(runs[r].state, "images", <<>>))
                          -> {"ok", "fail"}] :
             LET used == IF n = "sketch_analysis" THEN outs
                         ELSE runs[r].outs
                 st1  == Handler(n, StateOf(runs, r), used)
             IN /\ n # "sketch_analysis" => outs = [i \in DOMAIN outs |-> "ok"]
                /\ runs' = [runs EXCEPT ![r] =
                       [@ EXCEPT !.state = st1, !.outs = used,
                                 !.node = Successor(n, st1),
                                 !.visited = Append(@, n)]]

\* run r reached END: process_rfp returns its projection of the final state
RunReturn(r) ==
    /\ runs[r].node = END
    /\ runs' = [runs EXCEPT ![r] =
           [@ EXCEPT !.node = "done",
                     !.response = Project(runs[r].state)]]

RunsInit == runs = [r \in RunIds |-> NoRun]

\* what a call produces when it is the only one: the handlers applied in
\* graph order to its initial state
RECURSIVE Alone(_, _, _, _)
Alone(n, st, v, outs) ==
    IF n \notin Nodes THEN [state |-> st, visited |-> v]
    ELSE LET st1 == Handler(n, st, outs)
         IN Alone(Successor(n, st1), st1, Append(v, n), outs)

----------------------------------------------------------------------------
(* The specifications *)

Init ==
    RegInit /\ ConcInit /\ WFInit /\ ListInit /\ RefInit /\ RunsInit
    /\ BuildInit

\* a registry call made while no thread and no workflow run is modelled
Reg(A) ==
    A /\ UNCHANGED concVars /\ UNCHANGED wfVars /\ UNCHANGED listVars
      /\ UNCHANGED <<ref, runs, built>>

\* a step of a thread
Conc(A) ==
    A /\ UNCHANGED wfVars /\ UNCHANGED listVars
      /\ UNCHANGED <<ref, runs, built>>

\* a step of the orchestrator
WF(A) ==
    A /\ UNCHANGED regVars /\ UNCHANGED concVars /\ UNCHANGED listVars
      /\ UNCHANGED <<ref, runs, built>>

\* a step of list_jobs or of a call made while it runs
Lst(A) ==
    A /\ UNCHANGED concVars /\ UNCHANGED wfVars
      /\ UNCHANGED <<ref, runs, built>>

\* a step of the registry or of the caller holding a returned object
Ref(A) ==
    A /\ UNCHANGED concVars /\ UNCHANGED wfVars /\ UNCHANGED listVars
      /\ UNCHANGED <<runs, built>>

\* a step of one of two process_rfp calls in flight
Two(A) ==
    A /\ UNCHANGED regVars /\ UNCHANGED concVars /\ UNCHANGED wfVars
      /\ UNCHANGED listVars /\ UNCHANGED <<ref, built>>

Next ==
    \/ \E id \in RegIds, ty \in JobTypes :
           Reg(create_job(id, ty, "input", NoTime))
    \/ \E id \in RegIds, s \in JobStatus, p \in Percents, c \in Steps :
           Reg(update_job(id, s, p, c))
    \/ \E id \in RegIds, r \in Results : Reg(complete_job(id, r))
    \/ \E id \in RegIds, e \in Errors : Reg(fail_job(id, e))
    \/ \E id \in RegIds : Reg(cancel_job(id))
    \/ \E id \in RegIds : Reg(delete_job(id))
    \/ Reg(Tick)

NextConc ==
    \/ \E t \in Threads, c \in ConcCalls : Conc(ThCall(t, c))
    \/ \E t \in Threads : Conc(ThEnter(t))
    \/ \E t \in Threads : Conc(ThStmt(t))
    \/ \E t \in Threads, id \in RegIds : Conc(ThGet(t, id))
    \/ Conc(ConcTick)

NextWF ==
    \/ \E sk \in SketchArgs, md \in MetadataArgs :
           WF(process_rfp("text", sk, md))
    \/ \E st \in AgentStates : WF(ainvoke(st))
    \/ WF(RunClassifier)
    \/ WF(RunSketchAnalysis)
    \/ WF(RunVectorStore)
    \/ WF(RunAnalysis)
    \/ WF(RunDecision)
    \/ WF(RunGeneration)
    \/ WF(RunReview)
    \/ WF(Return)

\* the workflow with a decision stage whose logic may accept or reject
NextDecide ==
    \/ \E sk \in SketchArgs, md \in MetadataArgs :
           WF(process_rfp("text", sk, md))
    \/ \E st \in AgentStates : WF(ainvoke(st))
    \/ WF(RunClassifier)
    \/ WF(RunSketchAnalysis)
    \/ WF(RunVectorStore)
    \/ WF(RunAnalysis)
    \/ \E d \in Decisions : WF(RunDecisionWith(d))
    \/ WF(RunGeneration)
    \/ WF(RunReview)
    \/ WF(Return)

\* the registry with two job ids, one call at a time
NextPair ==
    \/ \E id \in JobIds, ty \in JobTypes :
           Reg(create_job(id, ty, "input", NoTime))
    \/ \E id \in JobIds : Reg(update_job(id, PROCESSING, NoPercent, None))
    \/ \E id \in JobIds : Reg(complete_job(id, "r1"))
    \/ \E id \in JobIds, e \in Errors : Reg(fail_job(id, e))
    \/ \E id \in JobIds : Reg(cancel_job(id))
    \/ \E id \in JobIds : Reg(delete_job(id))
    \/ Reg(PairTick)

\* list_jobs against concurrent create_job / update_job / delete_job
NextList ==
    \/ \E id \in JobIds, ty \in JobTypes : Lst(ListCreate(id, ty))
    \/ \E id \in JobIds, s \in ListStatuses : Lst(ListUpdate(id, s))
    \/ \E id \in JobIds : Lst(ListDelete(id))
    \/ \E s \in ListFilters : Lst(ListCall(s))
    \/ Lst(ListNext)

\* the registry and a caller that writes to the objects it was handed
NextRef ==
    \/ \E id \in JobIds, ty \in JobTypes : Ref(RefCreate(id, ty))
    \/ \E s \in ListFilters, id \in JobIds : Ref(RefList(s, id))
    \/ \E id \in JobIds : Ref(RefGet(id))
    \/ \E c \in RefCalls : Ref(RefMutator(c))
    \/ \E id \in JobIds : Ref(RefDelete(id))
    \/ \E s \in JobStatus : Ref(CallerSetsStatus(s))
    \/ Ref(RefTick)

\* two process_rfp calls on one orchestrator, interleaved at node boundaries
NextRuns ==
    \/ \E r \in RunIds, sk \in SketchArgs, md \in MetadataArgs :
           Two(RunStart(r, sk, md))
    \/ \E r \in RunIds : Two(RunStep(r))
    \/ \E r \in RunIds : Two(RunReturn(r))

Spec     == Init /\ [][Next]_vars
SpecConc == Init /\ [][NextConc]_vars
SpecWF   == Init /\ [][NextWF]_vars
SpecDecide == Init /\ [][NextDecide]_vars
SpecPair == Init /\ [][NextPair]_vars
SpecList == Init /\ [][NextList]_vars
SpecRef  == Init /\ [][NextRef]_vars
SpecRuns == Init /\ [][NextRuns]_vars

----------------------------------------------------------------------------
(* Properties of the registry *)

NonTerminal == JobStatus \ Terminal

SameTimestamps(j1, j2) ==
    /\ j1.created_at = j2.created_at
    /\ j1.updated_at = j2.updated_at
    /\ j1.completed_at = j2.completed_at

\* C1: terminal absorption.  Once a job is COMPLETED, FAILED or CANCELLED,
\* no update_job / complete_job / fail_job / cancel_job call changes its
\* status or any of its timestamps.
C1_TerminalAbsorption ==
    [][ \A c \in MutatingCalls(RegIds) :
          ( /\ c.job_id \in DOMAIN jobs
            /\ jobs[c.job_id].status \in Terminal
            /\ jobs' = Apply(jobs, c, now) )
          => /\ jobs'[c.job_id].status = jobs[c.job_id].status
             /\ SameTimestamps(jobs'[c.job_id], jobs[c.job_id]) ]_vars

\* C2: in every reachable registry state no job has both a result and an
\* error message, and a PENDING or PROCESSING job has neither.
C2_ResultErrorExclusive ==
    \A id \in DOMAIN jobs :
       /\ ~(jobs[id].result # None /\ jobs[id].error_message # None)
       /\ jobs[id].status \in NonTerminal =>
             (jobs[id].result = None /\ jobs[id].error_message = None)

AllowedTransitions ==
    { <<PENDING, PROCESSING>>, <<PENDING, CANCELLED>>,
      <<PROCESSING, COMPLETED>>, <<PROCESSING, FAILED>>,
      <<PROCESSING, CANCELLED>> }

\* C3: a job's status changes only along PENDING -> PROCESSING,
\* PROCESSING -> COMPLETED / FAILED / CANCELLED, or PENDING -> CANCELLED.
C3_StatusMachine ==
    [][ \A id \in (DOMAIN jobs) \cap (DOMAIN jobs') :
          jobs'[id].status # jobs[id].status
          => <<jobs[id].status, jobs'[id].status>> \in AllowedTransitions
      ]_vars

\* C4: create_job with a job id already in the registry fails with
\* DuplicateJobError and leaves the existing record unchanged.
C4_DuplicateCreateRejected ==
    [][ \A id \in DOMAIN jobs, ty \in JobTypes :
          create_job(id, ty, "input", NoTime)
          => (outcome' = "DuplicateJobError" /\ jobs' = jobs) ]_vars

\* C6: every registry operation is atomic with respect to the others: a
\* get_job running concurrently with update / complete / fail / cancel
\* never observes a partially applied change.
C6_AtomicReads ==
    \A t \in Threads : ~torn[t]

\* C7: completion and cancellation race benignly.  When a complete_job or
\* cancel_job call issued on a non-terminal job finds, once it holds the
\* lock, that the other call has taken effect first, it returns without
\* raising, the status stays that of the first call, and a result is
\* present only with status COMPLETED.
C7_RaceBenign ==
    [][ \A t \in Threads :
          ( /\ pc[t] = "body" /\ pc'[t] = "idle"
            /\ call[t].op \in {"complete_job", "cancel_job"}
            /\ atCall[t] \in NonTerminal
            /\ pre[t].status \in {COMPLETED, CANCELLED} )
          => LET j == jobs'[call[t].job_id]
             IN /\ outcome' = "returned"
                /\ j.status = pre[t].status
                /\ j.result # None => j.status = COMPLETED ]_vars

----------------------------------------------------------------------------
(* Properties of the workflow *)

HasError(st) == Get(st, "error", None) # None

InRun == caller # "none" /\ "images" \in DOMAIN state

\* C5: short-circuit.  Once a stage handler has set the error field, the
\* run ends: no further stage handler is invoked.
C5_ErrorShortCircuit ==
    HasError(state) => node \in {END, "idle"}

IsPrefixOrExtends(v, expected) ==
    \A i \in 1..Len(expected) : i <= Len(v) => v[i] = expected[i]

SketchPath ==
    << "input_classifier", "sketch_analysis", "vector_store_agent",
       "analysis_agent" >>

\* C8: for any state with at least one image, a run visits
\* input_classifier, sketch_analysis, vector_store_agent, analysis_agent in
\* exactly that order, with no other stage in between.
C8_SketchPathOrder ==
    (InRun /\ Len(state["images"]) > 0)
    => /\ IsPrefixOrExtends(visited, SketchPath)
       /\ node \in {END, "idle"} => Len(visited) >= Len(SketchPath)

C8_Witness ==
    /\ InRun
    /\ ~HasError(state)
    /\ Len(state["images"]) > 0
    /\ node = "decision_agent"
    /\ SubSeq(visited, 1, 4) = SketchPath

\* the nodes of visited as a set
Visited == {visited[i] : i \in 1..Len(visited)}

\* C9 as stated: for any state with an empty image list and no explicit
\* sketch-analysis flag, a run visits input_classifier and then
\* analysis_agent directly, and never sketch_analysis.
C9_TextOnlyPath_Original ==
    ( /\ InRun
      /\ Len(state["images"]) = 0
      /\ ~Get(state, "requires_sketch_analysis", FALSE) )
    => /\ IsPrefixOrExtends(visited, <<"input_classifier", "analysis_agent">>)
       /\ "sketch_analysis" \notin Visited
       /\ node # "sketch_analysis"

\* C9 (amended): for any state with an empty image list, an empty
\* sketch-metadata list and no explicit sketch-analysis flag, a run visits
\* input_classifier and then analysis_agent directly, and never
\* sketch_analysis.
C9_TextOnlyPath ==
    ( /\ InRun
      /\ Len(state["images"]) = 0
      /\ Len(Get(state, "sketch_metadata", <<>>)) = 0
      /\ ~Get(state, "requires_sketch_analysis", FALSE) )
    => /\ IsPrefixOrExtends(visited, <<"input_classifier", "analysis_agent">>)
       /\ "sketch_analysis" \notin Visited
       /\ node # "sketch_analysis"
       /\ node \in {END, "idle"} => Len(visited) >= 2

C9_Witness ==
    /\ InRun
    /\ Len(state["images"]) = 0
    /\ Len(Get(state, "sketch_metadata", <<>>)) = 0
    /\ ~Get(state, "requires_sketch_analysis", FALSE)
    /\ node = END
    /\ SubSeq(visited, 1, 2) = <<"input_classifier", "analysis_agent">>

NeedsSketchAnalysis(st) ==
    \/ Len(Get(st, "images", <<>>)) > 0
    \/ Len(Get(st, "sketch_metadata", <<>>)) > 0
    \/ Get(st, "requires_sketch_analysis", FALSE)

\* C10: the classifier stage routes to sketch_analysis if and only if the
\* incoming state has a non-empty image list, a non-empty sketch-metadata
\* list or the requires-sketch-analysis flag set; in every other case it
\* routes to analysis_agent.
C10_ClassifierRouting ==
    [][ node = "input_classifier"
        => /\ NeedsSketchAnalysis(state) => node' = "sketch_analysis"
           /\ ~NeedsSketchAnalysis(state) => node' = "analysis_agent" ]_vars

\* the classifier has just routed a state that carries the flag only
C10_Witness ==
    /\ visited = <<"input_classifier">>
    /\ node = "sketch_analysis"
    /\ Len(state["images"]) = 0
    /\ Len(state["sketch_metadata"]) = 0
    /\ state["requires_sketch_analysis"]

----------------------------------------------------------------------------
(* The decision stage *)

\* C11: if the decision stage sets decision to "reject", the run terminates
\* immediately after the decision stage: the generation and review stages
\* are not visited.
C11_RejectEndsRun ==
    ( /\ InRun
      /\ "decision_agent" \in Visited
      /\ Get(state, "decision", None) = "reject" )
    => /\ node \in {END, "idle"}
       /\ visited[Len(visited)] = "decision_agent"
       /\ "generation_agent" \notin Visited
       /\ "review_agent" \notin Visited

\* a run whose decision stage rejected has reached END
C11_Witness ==
    /\ InRun
    /\ node = END
    /\ Len(visited) > 0
    /\ visited[Len(visited)] = "decision_agent"
    /\ Get(state, "decision", None) = "reject"

----------------------------------------------------------------------------
(* The sketch-analysis stage *)

\* C12: in the sketch-analysis stage a vision-model failure on one image is
\* recorded as a warning on that image's result and the remaining images
\* are still analysed; if no image at all was analysed successfully, the
\* run ends with the state's error field set.
C12_VisionFailures ==
    [][ (node = "sketch_analysis" /\ Len(Get(state, "images", <<>>)) > 0)
        => \A outs \in [1..Len(state["images"]) -> {"ok", "fail"}] :
             state' = SketchAgentNode(state, outs)
             => LET results == state'["analysis_results"]
                    failed(i) == outs[i] = "fail"
                IN /\ \A i \in 1..Len(results) :
                          failed(i) => results[i].warnings # <<>>
                   /\ \A i \in 1..Len(results) :
                          ~failed(i) => results[i].warnings = <<>>
                   /\ (\A i \in 1..Len(results) : failed(i))
                          => HasError(state') ]_vars


----------------------------------------------------------------------------
(* Properties of the registry: progress, completion, failure *)

\* C13: while a job is PROCESSING its progress percent is monotonically
\* non-decreasing: no registry operation applied to a PROCESSING job lowers
\* its progress percent.
C13_ProgressMonotone ==
    [][ \A c \in MutatingCalls(RegIds) :
          ( /\ c.job_id \in DOMAIN jobs
            /\ jobs[c.job_id].status = PROCESSING
            /\ jobs' = Apply(jobs, c, now) )
          => jobs'[c.job_id].progress_percent
                >= jobs[c.job_id].progress_percent ]_vars

\* C14: a job's progress percent is always within 0..100, whatever values
\* callers pass to the registry operations.
C14_ProgressInRange ==
    \A id \in DOMAIN jobs : jobs[id].progress_percent \in 0..100

\* C15: complete_job(id, result) on a present, non-terminal job sets the
\* status to COMPLETED, stores the result, sets the progress percent to 100,
\* sets the completed timestamp and records the duration as completed minus
\* created time; on an absent or already terminal job it changes nothing.
C15_CompleteJob ==
    [][ \A id \in RegIds, r \in Results :
          complete_job(id, r)
          => IF id \in DOMAIN jobs /\ jobs[id].status \in NonTerminal
             THEN /\ jobs'[id].status = COMPLETED
                  /\ jobs'[id].result = r
                  /\ jobs'[id].progress_percent = 100
                  /\ jobs'[id].completed_at = now
                  /\ jobs'[id].processing_time =
                        jobs'[id].completed_at - jobs[id].created_at
             ELSE jobs' = jobs ]_vars

\* C16: for every job id not yet in the registry, create_job followed by
\* get_job returns a record with status PENDING, zero progress, no result
\* and no error, and the registry holds exactly one more record than before.
C16_CreateThenGet ==
    [][ \A id \in JobIds \ DOMAIN jobs, ty \in JobTypes :
          create_job(id, ty, "input", NoTime)
          => LET j == get_job(jobs', id)
             IN /\ j # NoJob
                /\ j.job_id = id
                /\ j.status = PENDING
                /\ j.progress_percent = 0
                /\ j.result = None
                /\ j.error_message = None
                /\ Cardinality(DOMAIN jobs') = Cardinality(DOMAIN jobs) + 1
      ]_vars

\* job-2 has just been created next to a job-1 that already completed
C16_Witness ==
    /\ DOMAIN jobs = {"job-1", "job-2"}
    /\ jobs["job-1"].status = COMPLETED
    /\ jobs["job-2"] = ProcessingJob("job-2", PENDING, "sketch_analysis",
                                     "input", NoTime, now)
    /\ jobs["job-2"].created_at > jobs["job-1"].created_at
    /\ outcome = "returned"

\* a record as create_job leaves it
Fresh(j) ==
    j = ProcessingJob(j.job_id, PENDING, j.job_type, j.input_data,
                      j.total_steps, j.created_at)

\* C17: for any freshly created job, fail_job(id, message) followed by
\* get_job returns a record with status FAILED, error message equal to the
\* given message, and result absent.
C17_FailThenGet ==
    [][ \A id \in DOMAIN jobs, e \in Errors :
          (Fresh(jobs[id]) /\ fail_job(id, e))
          => LET j == get_job(jobs', id)
             IN /\ j.status = FAILED
                /\ j.error_message = e
                /\ j.result = None ]_vars

\* a job that failed straight after its creation
C17_Witness ==
    \E id \in DOMAIN jobs :
       /\ jobs[id].status = FAILED
       /\ jobs[id].error_message \in Errors
       /\ jobs[id].result = None
       /\ jobs[id].completed_at = NoTime
       /\ jobs[id].progress_percent = 0
       /\ jobs[id].current_step = None
       /\ jobs[id].updated_at > jobs[id].created_at

\* C18: update_job, complete_job, fail_job, cancel_job and delete_job
\* called with a job id that is not in the registry raise no error and
\* leave the whole registry unchanged.
C18_AbsentIdNoOp ==
    [][ \A id \in JobIds \ DOMAIN jobs :
          ( \/ \E s \in JobStatus, p \in Percents, c \in Steps :
                  update_job(id, s, p, c)
            \/ \E r \in Results : complete_job(id, r)
            \/ \E e \in Errors : fail_job(id, e)
            \/ cancel_job(id)
            \/ delete_job(id) )
          => (jobs' = jobs /\ outcome' = "returned") ]_vars

\* a call has returned while job-2 is unknown and job-1 is on record
C18_Witness ==
    /\ DOMAIN jobs = {"job-1"}
    /\ jobs["job-1"].status = PROCESSING
    /\ outcome = "returned"

\* C19: delete_job removes the job's record whatever its status; every
\* subsequent get_job for that id returns not-found until a later
\* create_job of that id, and list_jobs no longer includes it.
C19_DeleteThenGet ==
    [][ \A id \in JobIds :
          /\ delete_job(id)
             => /\ get_job(jobs', id) = NoJob
                /\ \A s \in JobStatus \cup {None} :
                      \A j \in list_jobs(jobs', s) : j.job_id # id
          /\ (get_job(jobs, id) = NoJob /\ get_job(jobs', id) # NoJob)
             => \E ty \in JobTypes : create_job(id, ty, "input", NoTime)
      ]_vars

\* job-1 was created first and is gone, job-2 is still on record
C19_Witness ==
    /\ DOMAIN jobs = {"job-2"}
    /\ jobs["job-2"].status \in Terminal
    /\ get_job(jobs, "job-1") = NoJob
    /\ outcome = "returned"

\* the elements of a list
ItemSet(items) == {items[i] : i \in 1..Len(items)}

\* C20: list_jobs(statusFilter) returns a snapshot: exactly the jobs present
\* at one instant whose status equals the filter (all jobs when no filter
\* is given), and it completes normally for every interleaving with
\* concurrent create, delete and update operations.
C20_ListSnapshot ==
    listed.done
    => /\ listed.raised = None
       /\ ItemSet(listed.items) \in listed.snaps
       /\ Cardinality(ItemSet(listed.items)) = Len(listed.items)

----------------------------------------------------------------------------
(* Ownership of the job records *)

\* C21: job records are changed only by registry operations: a caller that
\* modifies the Job value returned by create, get or list does not change
\* the record the registry holds, so a later get returns the record as last
\* written by a registry operation.
C21_RegistryOwnsRecords ==
    [][ \A s \in JobStatus, id \in JobIds :
          CallerSetsStatus(s) => get_job(jobs', id) = get_job(jobs, id)
      ]_vars

----------------------------------------------------------------------------
(* process_rfp: the initial state and the response *)

\* C22: process_rfp builds an initial state whose message log holds exactly
\* one entry, whose image list is the supplied images unchanged, and whose
\* requires-sketch-analysis flag is true if and only if the supplied image
\* list is non-empty.
C22_InitialState ==
    [][ \A sk \in SketchArgs, md \in MetadataArgs :
          (process_rfp("text", sk, md) /\ node' = EntryPoint)
          => LET supplied == IF sk.given THEN sk.value ELSE <<>>
             IN /\ Len(state'["messages"]) = 1
                /\ state'["images"] = supplied
                /\ state'["requires_sketch_analysis"] <=> Len(supplied) > 0
      ]_vars

\* process_rfp has built the state for two images and no sketch metadata
C22_Witness ==
    /\ caller = "process_rfp"
    /\ node = EntryPoint
    /\ visited = <<>>
    /\ Len(state["messages"]) = 1
    /\ state["images"] = Images(2)
    /\ Len(state["sketch_metadata"]) = 0
    /\ state["requires_sketch_analysis"]

\* C23: the images and metadata arguments of process_rfp are optional: a
\* call that omits metadata (or images) still builds the initial state,
\* runs the workflow and returns a response rather than failing before the
\* run starts.
C23_OptionalArguments ==
    [][ \A sk \in SketchArgs, md \in MetadataArgs :
          process_rfp("text", sk, md)
          => /\ node' = EntryPoint
             /\ "messages" \in DOMAIN state'
             /\ "raised" \notin DOMAIN response' ]_vars

TextOnlyPath ==
    << "input_classifier", "analysis_agent", "decision_agent",
       "generation_agent", "review_agent" >>

\* process_rfp has returned from a run on no images and empty metadata
\* whose decision was "generate"
TextOnlyDone ==
    /\ caller = "process_rfp"
    /\ node = "idle"
    /\ "success" \in DOMAIN response
    /\ Len(state["images"]) = 0
    /\ Len(state["sketch_metadata"]) = 0
    /\ Get(state, "decision", None) = "generate"

\* C24: for a request with no images and empty metadata, when the decision
\* is "generate", the run visits exactly the stages classifier, analysis,
\* decision, generation and review, and the response reports
\* has_sketches = false and sketch_count = 0.
C24_TextOnlyScenario ==
    ( /\ caller = "process_rfp"
      /\ node \in {END, "idle"}
      /\ "images" \in DOMAIN state
      /\ Len(state["images"]) = 0
      /\ Len(state["sketch_metadata"]) = 0 )
    => /\ "decision_agent" \in Visited
       /\ Get(state, "decision", None) = "generate" => visited = TextOnlyPath
       /\ "success" \in DOMAIN response
            => /\ response.has_sketches = FALSE
               /\ response.sketch_count = 0

C24_Witness ==
    /\ TextOnlyDone
    /\ visited = TextOnlyPath
    /\ response.success
    /\ ~response.has_sketches

\* process_rfp has returned its response for the run that ended in state
Responded ==
    /\ caller = "process_rfp"
    /\ node = "idle"
    /\ "success" \in DOMAIN response

\* C25: whenever a run ends with the state's error field set, the response
\* has success = false, its error field equals the state's error, and the
\* per-stage results and aggregated data written by the stages that ran
\* before the failure are still present in the response.
C25_ErrorResponse ==
    (Responded /\ HasError(state))
    => /\ ~response.success
       /\ response.error = state["error"]
       /\ response.analysis_results = Get(state, "analysis_results", <<>>)
       /\ response.extracted_data = Get(state, "extracted_data", EmptyState)
       /\ response.has_sketches = Get(state, "has_sketches", FALSE)
       /\ response.sketch_count = Get(state, "sketch_count", 0)
       /\ response.messages = state["messages"]

\* a run failed in sketch_analysis after the classifier had counted one
\* sketch, and the response shows both
C25_Witness ==
    /\ Responded
    /\ HasError(state)
    /\ ~response.success
    /\ response.has_sketches
    /\ response.sketch_count = 1
    /\ Len(response.messages) >= 2

----------------------------------------------------------------------------
(* The next_agent field and routing *)

\* C26: within a run, once the state's next_agent field has been set to
\* the terminal marker, no later handler invocation overwrites it with
\* another value.
C26_EndMarkerKept ==
    [][ (node # "idle" /\ Get(state, "next_agent", None) = END)
        => Get(state', "next_agent", None) = END ]_vars

\* handlers have run after sketch_analysis wrote the terminal marker
C26_Witness ==
    /\ InRun
    /\ Get(state, "next_agent", None) = END
    /\ "sketch_analysis" \in Visited
    /\ "vector_store_agent" \in Visited
    /\ "review_agent" \in Visited

\* the stages a run on state st goes through, as a function of the fields
\* the caller supplied and of the decision the decision stage wrote
RouteOf(st) ==
    <<"input_classifier">>
    \o (IF NeedsSketchAnalysis(st)
        THEN <<"sketch_analysis", "vector_store_agent">> ELSE <<>>)
    \o <<"analysis_agent", "decision_agent">>
    \o (IF Get(st, "decision", None) = "reject"
        THEN <<>> ELSE <<"generation_agent", "review_agent">>)

\* C27: routing is deterministic: two runs started from equal initial
\* states with the same stage behaviour visit the same sequence of stages;
\* each routing decision depends only on the state at decision time.
\* (The stages visited so far and the stage to run next are a function of
\* the current state alone.)
C27_DeterministicRouting ==
    InRun
    => LET route == RouteOf(state)
           k     == Len(visited)
       IN /\ k <= Len(route)
          /\ visited = SubSeq(route, 1, k)
          /\ node = IF k < Len(route) THEN route[k + 1] ELSE node
          /\ k = Len(route) => node \in {END, "idle"}

\* a run with sketches whose decision stage rejected has ended after five
\* stages
C27_Witness ==
    /\ InRun
    /\ node = END
    /\ Get(state, "decision", None) = "reject"
    /\ visited = << "input_classifier", "sketch_analysis",
                    "vector_store_agent", "analysis_agent",
                    "decision_agent" >>

\* the value the branch function of node n returns for state st
BranchValue(n, st) ==
    IF n = "input_classifier" THEN _route_from_classifier(st)
    ELSE _route_decision(st)

----------------------------------------------------------------------------
(* The sketch-analysis handler and the vision collaborator *)

\* the outcomes of the vision calls for the images of st
VisionOutcomes(st) ==
    [1..Len(Get(st, "images", <<>>)) -> {"ok", "fail"}]

\* C30: the sketch-analysis handler never propagates a failure of the
\* vision collaborator: for every outcome of the collaborator calls it
\* returns a state, and any failure it cannot absorb is encoded as the
\* state's error field with the next stage set to the terminal marker.
C30_HandlerAbsorbsFailures ==
    [][ node = "sketch_analysis"
        => /\ "raised" \notin DOMAIN response'
           /\ \E outs \in VisionOutcomes(state) :
                 state' = SketchAgentNode(state, outs)
           /\ DOMAIN state \subseteq DOMAIN state'
           /\ HasError(state') => state'["next_agent"] = END
           /\ ~HasError(state')
                 => /\ state'["next_agent"] = "vector_store_agent"
                    /\ Len(state'["analysis_results"]) > 0 ]_vars

\* the handler has returned a state although every vision call failed
C30_Witness ==
    /\ InRun
    /\ visited = <<"input_classifier", "sketch_analysis">>
    /\ ~HasError(state)
    /\ Len(state["analysis_results"]) = 2
    /\ \A i \in 1..2 : state["analysis_results"][i].warnings # <<>>

----------------------------------------------------------------------------
(* Properties of concurrent runs *)

Finished(r) == runs[r].node = "done" /\ "success" \in DOMAIN runs[r].response

\* C31: when two process_rfp calls run interleaved on one orchestrator,
\* each call's visited sequence and final state are the ones it produces
\* when it runs alone on the same arguments and vision outcomes
C31_RunsIndependent ==
    \A r \in RunIds :
        Finished(r) =>
            LET solo == Alone(EntryPoint, runs[r].init, <<>>, runs[r].outs)
            IN /\ runs[r].visited = solo.visited
               /\ runs[r].state = solo.state
               /\ runs[r].response = Project(solo.state)

\* both calls finished, one on the sketch path and one on the text path,
\* after their nodes ran interleaved
C31_Witness ==
    /\ \A r \in RunIds : Finished(r)
    /\ "sketch_analysis" \in
           {runs["run-a"].visited[i] : i \in 1..Len(runs["run-a"].visited)}
    /\ "sketch_analysis" \notin
           {runs["run-b"].visited[i] : i \in 1..Len(runs["run-b"].visited)}
    /\ runs["run-a"].response.success
    /\ runs["run-b"].response.success
----------------------------------------------------------------------------
(* The message log *)

IsPrefix(s, t) == Len(s) <= Len(t) /\ \A i \in 1..Len(s) : t[i] = s[i]

\* C32: the message log is append-only during a run: every handler
\* invocation leaves the entries already in the log unchanged and in
\* order, and only adds entries at the end
C32_MessagesAppendOnly ==
    [][ (node \in Nodes)
        => IsPrefix(Get(state, "messages", <<>>),
                    Get(state', "messages", <<>>)) ]_vars

\* a sketch run ended with the caller's message followed by one entry per
\* handler, in the order the handlers ran
C32_Witness ==
    /\ InRun
    /\ node = END
    /\ visited = <<"input_classifier", "sketch_analysis",
                   "vector_store_agent", "analysis_agent", "decision_agent",
                   "generation_agent", "review_agent">>
    /\ Len(state["messages"]) = 8
    /\ state["messages"][1] = "Process RFP"
    /\ state["messages"][8] = "Quality review complete"
----------------------------------------------------------------------------
(* Serialization of the mutating calls *)

InUpdate == {t \in Threads : pc[t] = "body"}

----------------------------------------------------------------------------
(* Termination of a run *)

NoRepeats(v) == \A i, j \in 1..Len(v) : v[i] = v[j] => i = j

\* C34: every run reaches the terminal marker after finitely many handler
\* invocations: no stage is visited more than once in a run (the stage
\* about to run has not run before), so a run invokes at most seven
\* handlers before it stands at the terminal marker
C34_RunTerminates ==
    InRun =>
        /\ NoRepeats(visited)
        /\ node \in Nodes => node \notin Visited
        /\ Len(visited) <= 7
        /\ Visited \subseteq Nodes
        /\ node \in Nodes \cup {END, "idle"}

\* process_rfp returned after a run that invoked all seven handlers
C34_Witness ==
    /\ caller = "process_rfp"
    /\ node = "idle"
    /\ Len(visited) = 7
    /\ Visited = Nodes
    /\ "success" \in DOMAIN response
----------------------------------------------------------------------------
(* Completed records *)

CompletedFields(j) ==
    /\ j.progress_percent = 100
    /\ j.result # None
    /\ j.completed_at # NoTime
    /\ j.processing_time # NoTime

Stamped(d, id) ==
    /\ id \in DOMAIN d
    /\ (d[id].completed_at # NoTime \/ d[id].processing_time # NoTime)

\* C35: in every reachable registry state, a job whose status is COMPLETED
\* has progress 100, a result, a completed timestamp and a processing
\* duration; and a job gets a completed timestamp or a processing duration
\* only by a complete_job call applied to it
C35_CompletedRecord ==
    [][ /\ \A id \in DOMAIN jobs' :
              jobs'[id].status = COMPLETED => CompletedFields(jobs'[id])
        /\ \A id \in RegIds :
              (Stamped(jobs', id) /\ ~Stamped(jobs, id))
              => \E r \in Results : complete_job(id, r) ]_vars
----------------------------------------------------------------------------
(* Construction *)

StageNames == {Registrations[i].name : i \in 1..Len(Registrations)}

\* C36: constructing the orchestrator succeeds: no exception leaves
\* __init__, and each of the seven stage names the workflow builder
\* registers is bound to a handler the orchestrator defines
C36_ConstructionSucceeds ==
    /\ built.raised = None
    /\ {built.registered[i].name : i \in 1..Len(built.registered)}
           = StageNames
    /\ \A i \in 1..Len(built.registered) :
           Resolves(built.registered[i].handler)
    /\ Cardinality(StageNames) = 7
----------------------------------------------------------------------------
(* Results of the sketch analysis *)

\* C37: after the sketch-analysis stage completes without error, the state
\* holds exactly one analysis result per supplied image, in image order,
\* also when the sketch-metadata list is shorter than the image list
C37_OneResultPerImage ==
    (InRun /\ "sketch_analysis" \in Visited /\ ~HasError(state))
    => LET results == Get(state, "analysis_results", <<>>)
           images  == Get(state, "images", <<>>)
           meta    == Get(state, "sketch_metadata", <<>>)
       IN /\ Len(results) = Len(images)
          /\ \A i \in 1..Len(results) :
                i <= Len(meta) => results[i].sketch_id = meta[i]
----------------------------------------------------------------------------
(* Sketch analysis without images *)

\* the classifier sent the run to sketch_analysis although the image list
\* is empty: the sketch metadata or the explicit flag asked for it
RoutedWithoutImages ==
    /\ InRun
    /\ node = "sketch_analysis"
    /\ visited = <<"input_classifier">>
    /\ Len(Get(state, "images", <<>>)) = 0
    /\ \/ Len(Get(state, "sketch_metadata", <<>>)) > 0
       \/ Get(state, "requires_sketch_analysis", FALSE)

\* C38: when the classifier routes a state to sketch_analysis because of
\* sketch metadata or the explicit flag while the image list is empty, the
\* sketch-analysis handler sets the error field, sets next_agent to the
\* terminal marker, and leaves the analysis results and the aggregated
\* data unchanged
C38_NoImagesError ==
    [][ RoutedWithoutImages
        => /\ HasError(state')
           /\ Get(state', "next_agent", None) = END
           /\ Get(state', "analysis_results", <<>>)
                 = Get(state, "analysis_results", <<>>)
           /\ Get(state', "extracted_data", EmptyState)
                 = Get(state, "extracted_data", EmptyState) ]_vars

\* the handler has run on a state with sketch metadata and no image
C38_Witness ==
    /\ InRun
    /\ visited = <<"input_classifier", "sketch_analysis">>
    /\ Len(Get(state, "images", <<>>)) = 0
    /\ Len(Get(state, "sketch_metadata", <<>>)) > 0
    /\ Get(state, "error", None) = "No images found"
    /\ Get(state, "next_agent", None) = END
----------------------------------------------------------------------------
(* The classifier's next_agent and its branch *)

\* C39: after the classifier stage, the next_agent field it wrote into the
\* state names the successor that the classifier's branch function selects
\* for that state, and the run continues there, for every input state
C39_ClassifierAgreesWithBranch ==
    [][ (node = "input_classifier")
        => /\ Get(state', "next_agent", None)
                 = PathMap["input_classifier"][_route_from_classifier(state')]
           /\ node' = Get(state', "next_agent", None) ]_vars

\* the classifier has sent a state without images to sketch_analysis
C39_Witness ==
    /\ InRun
    /\ visited = <<"input_classifier">>
    /\ Len(Get(state, "images", <<>>)) = 0
    /\ node = "sketch_analysis"
    /\ Get(state, "next_agent", None) = "sketch_analysis"
----------------------------------------------------------------------------
(* Frame of the registry operations *)

\* a registry operation addressed to job id takes the step
AddressedTo(id) ==
    \/ \E ty \in JobTypes : create_job(id, ty, "input", NoTime)
    \/ \E s \in JobStatus, p \in Percents, c \in Steps :
          update_job(id, s, p, c)
    \/ \E r \in Results : complete_job(id, r)
    \/ \E e \in Errors : fail_job(id, e)
    \/ cancel_job(id)
    \/ delete_job(id)

\* C40: every registry operation addressed to one job id leaves the
\* records of all other job ids unchanged, including their status,
\* progress, result, error and timestamps
C40_OtherJobsUntouched ==
    [][ \A id \in JobIds :
          \/ \A k \in (DOMAIN jobs) \ {id} :
                k \in DOMAIN jobs' /\ jobs'[k] = jobs[k]
          \/ ~AddressedTo(id) ]_vars

\* job-1 went through an update and a completion at later clock values
\* while job-2, created first, still is as create_job left it
C40_Witness ==
    /\ DOMAIN jobs = JobIds
    /\ jobs["job-1"].status = COMPLETED
    /\ jobs["job-1"].completed_at > jobs["job-2"].created_at
    /\ jobs["job-2"].status = PENDING
    /\ jobs["job-2"].updated_at = jobs["job-2"].created_at
    /\ jobs["job-2"].progress_percent = 0
====
